---- MODULE Spec2Model ----
(***************************************************************************)
(* Model of the Clang coverage test executor plugin                        *)
(* (Scripts/TesterPlugins/TestExecutors/ClangCoverageTestExecutor.py):     *)
(* the `::` glob matcher, the source filter, the coverage aggregator and   *)
(* the Start / Stop / Extract lifecycle.                                   *)
(*                                                                         *)
(* Strings split on "::" are sequences of segments; Python's 0-based       *)
(* indices are kept, so list[i] is written seq[i + 1].  Python's None is   *)
(* the value None.                                                         *)
(***************************************************************************)
EXTENDS Integers, Sequences, FiniteSets, TLC

VARIABLES
    glob_parts,         \* CreateItemMatcher: glob_value.split("::")
    value_parts,        \* Impl: value.split("::")
    glob_part_index,    \* Impl: cursor in glob_parts
    value_part_index,   \* Impl: cursor in value_parts
    mpc,                \* Impl: "idle" | "loop" | "done"
    mexit,              \* Impl: how the while loop was left
    mret,               \* Impl: the returned bool (None until it returns)
    f_filter,           \* CreateSourceMatcher: the CodeCoverageContentFilter
    f_value,            \* CreateSourceMatcher.Impl: value
    f_ret,              \* CreateSourceMatcher.Impl: the returned bool
    f_pc,               \* CreateSourceMatcher.Impl: "idle" | "call" | "done"
    source_filters,     \* ApplyFunc: file glob -> CodeCoverageContentFilter
    data,               \* ApplyFunc: json.loads(line) of the current line
    file_result,        \* ApplyFunc: the file-level fallback
    result,             \* ApplyFunc: the running method-level total
    accumulated,        \* history: the method records added to result
    nlines,             \* history: lines of the report read so far
    apc,                \* ApplyFunc: position in the loop over the lines
    apply_ret,          \* ApplyFunc: the returned Optional[CoverageResult]
    extract_ret,        \* ExtractCoverageInfo: the returned (covered, uncovered)
    parent_is_dir,      \* coverage_filename.parent.is_dir()
    files,              \* files of the tree under coverage_filename.parent
    artifact,           \* coverage_filename.exists()
    found,              \* StartCoverage: found
    start_files,        \* history: files when the running Start was called
    gcda_dirs,          \* StopCoverage: gcda_dirs
    merge_runs,         \* history: command lines run by the current Stop
    lpc,                \* lifecycle position
    fresh,              \* history: files written since the last completed Start
    life_hist           \* history: a Start has completed / was interrupted

varsGlob == <<glob_parts, value_parts, glob_part_index, value_part_index,
              mpc, mexit, mret>>
varsFilter == <<f_filter, f_value, f_ret, f_pc>>

varsAgg == <<source_filters, data, file_result, result, accumulated, nlines,
             apc, apply_ret, extract_ret>>
varsLife == <<parent_is_dir, files, artifact, found, start_files, gcda_dirs,
              merge_runs, lpc, fresh, life_hist>>

vars == <<varsGlob, varsFilter, varsAgg, varsLife>>
varsNotGlob == <<varsFilter, varsAgg, varsLife>>
varsNotFilter == <<varsGlob, varsAgg, varsLife>>
varsNotAgg == <<varsGlob, varsFilter, varsLife>>
varsNotLife == <<varsGlob, varsFilter, varsAgg>>

None == "None"

\* Optional[List[str]]: None, or a list of globs
NoList == [some |-> FALSE, v |-> <<>>]
SomeList(l) == [some |-> TRUE, v |-> l]

\* ------------------------------------------------------------------ bounds
MaxGlobParts == 3
MaxValueParts == 4
MaxFilterGlobs == 2
MaxFilterValueParts == 3
MaxRecords == 3
MaxSubDirs == 2

\* --------------------------------------------------------------- alphabets
LiteralSegs == {"a", "b", "c"}
GlobSegs == LiteralSegs \cup {"*", "*{1}"}

SeqsUpTo(S, n) == UNION {[1..k -> S] : k \in 1..n}

GlobPatterns == SeqsUpTo(GlobSegs, MaxGlobParts)
Values == SeqsUpTo(LiteralSegs, MaxValueParts)

\* ------------------------------------------------------------ glob matcher
\* while glob_part_index < len(glob_parts) and value_part_index < len(value_parts)
WhileCond(g, v, gi, vi) == gi < Len(g) /\ vi < Len(v)

\* if glob_part_index + 1 == len(glob_parts)
StarIsLast(g, gi) == gi + 1 = Len(g)

\* mutation of SkipUntil: an if in place of the inner while
SkipUntilOnce(v, vi, next_glob_part) ==
    IF vi < Len(v) /\ v[vi + 1] # next_glob_part THEN vi + 1 ELSE vi

\* the inner while: advance the value cursor up to the next glob part
RECURSIVE SkipUntil(_, _, _)
SkipUntil(v, vi, next_glob_part) ==
    IF vi < Len(v) /\ v[vi + 1] # next_glob_part
    THEN SkipUntil(v, vi + 1, next_glob_part)
    ELSE vi

\* if glob_part != value_part: break
LiteralDiffers(glob_part, value_part) == glob_part # value_part

\* mutation of SkipOne: the "*{1}" branch forgets to consume the value segment
SkipOneStays(vi) == vi

\* the "*{1}" branch: value_part_index += 1
SkipOne(vi) == vi + 1

\* mutation of ReturnValue: only the value cursor is tested
ReturnValueOnlyValue(g, v, gi, vi) == vi = Len(v)

\* return glob_part_index == len(glob_parts) and value_part_index == len(value_parts)
ReturnValue(g, v, gi, vi) == gi = Len(g) /\ vi = Len(v)

\* The whole of Impl as a function of the two cursors.
RECURSIVE Loop(_, _, _, _)
Loop(g, v, gi, vi) ==
    IF ~WhileCond(g, v, gi, vi) THEN ReturnValue(g, v, gi, vi)
    ELSE IF g[gi + 1] = "*{1}" THEN Loop(g, v, gi + 1, SkipOne(vi))
    ELSE IF g[gi + 1] = "*" THEN
        IF StarIsLast(g, gi) THEN TRUE
        ELSE Loop(g, v, gi + 1, SkipUntil(v, vi, g[gi + 2]))
    ELSE IF LiteralDiffers(g[gi + 1], v[vi + 1]) THEN ReturnValue(g, v, gi, vi)
    ELSE Loop(g, v, gi + 1, vi + 1)

\* CreateItemMatcher(glob_value)(value)
ItemMatcher(g, v) == Loop(g, v, 0, 0)

\* ---- the matcher as a state machine, one action per branch of the loop body
IdleGlob ==
    /\ glob_parts = <<>>
    /\ value_parts = <<>>
    /\ glob_part_index = 0
    /\ value_part_index = 0
    /\ mpc = "idle"
    /\ mexit = None
    /\ mret = None

IdleFilter ==
    /\ f_filter = [includes |-> NoList, excludes |-> NoList]
    /\ f_value = <<>>
    /\ f_ret = FALSE
    /\ f_pc = "idle"

IdleAgg ==
    /\ source_filters = <<>>
    /\ data = <<>>
    /\ file_result = <<>>
    /\ result = <<>>
    /\ accumulated = <<>>
    /\ nlines = 0
    /\ apc = "idle"
    /\ apply_ret = <<>>
    /\ extract_ret = <<>>

IdleLife ==
    /\ parent_is_dir = FALSE
    /\ files = {}
    /\ artifact = FALSE
    /\ found = 0
    /\ start_files = [files |-> {}, artifact |-> FALSE]
    /\ gcda_dirs = {}
    /\ merge_runs = <<>>
    /\ lpc = "idle"
    /\ fresh = {}
    /\ life_hist = [completed |-> FALSE, interrupted |-> FALSE]

InitGlob ==
    /\ IdleFilter
    /\ IdleAgg
    /\ IdleLife
    /\ glob_parts \in GlobPatterns
    /\ value_parts \in Values
    /\ glob_part_index = 0
    /\ value_part_index = 0
    /\ mpc = "loop"
    /\ mexit = None
    /\ mret = None

InLoop ==
    /\ mpc = "loop"
    /\ WhileCond(glob_parts, value_parts, glob_part_index, value_part_index)

MatchSkipOne ==
    /\ InLoop
    /\ glob_parts[glob_part_index + 1] = "*{1}"
    /\ value_part_index' = SkipOne(value_part_index)
    /\ glob_part_index' = glob_part_index + 1
    /\ UNCHANGED <<glob_parts, value_parts, mpc, mexit, mret, varsNotGlob>>

\* mutation of MatchStarLast: the last "*" leaves the loop instead of
\* returning True
MatchStarLastBreaks ==
    /\ InLoop
    /\ glob_parts[glob_part_index + 1] = "*"
    /\ StarIsLast(glob_parts, glob_part_index)
    /\ mret' = ReturnValue(glob_parts, value_parts,
                           glob_part_index, value_part_index)
    /\ mexit' = "return"
    /\ mpc' = "done"
    /\ UNCHANGED <<glob_parts, value_parts, glob_part_index, value_part_index,
                   varsNotGlob>>

MatchStarLast ==
    /\ InLoop
    /\ glob_parts[glob_part_index + 1] = "*"
    /\ StarIsLast(glob_parts, glob_part_index)
    /\ mret' = TRUE
    /\ mexit' = "return"
    /\ mpc' = "done"
    /\ UNCHANGED <<glob_parts, value_parts, glob_part_index, value_part_index,
                   varsNotGlob>>

MatchStarSkip ==
    /\ InLoop
    /\ glob_parts[glob_part_index + 1] = "*"
    /\ ~StarIsLast(glob_parts, glob_part_index)
    /\ value_part_index' = SkipUntil(value_parts, value_part_index,
                                     glob_parts[glob_part_index + 2])
    /\ glob_part_index' = glob_part_index + 1
    /\ UNCHANGED <<glob_parts, value_parts, mpc, mexit, mret, varsNotGlob>>

MatchLiteral ==
    /\ InLoop
    /\ glob_parts[glob_part_index + 1] \notin {"*", "*{1}"}
    /\ ~LiteralDiffers(glob_parts[glob_part_index + 1],
                       value_parts[value_part_index + 1])
    /\ value_part_index' = value_part_index + 1
    /\ glob_part_index' = glob_part_index + 1
    /\ UNCHANGED <<glob_parts, value_parts, mpc, mexit, mret, varsNotGlob>>

MatchLiteralBreak ==
    /\ InLoop
    /\ glob_parts[glob_part_index + 1] \notin {"*", "*{1}"}
    /\ LiteralDiffers(glob_parts[glob_part_index + 1],
                      value_parts[value_part_index + 1])
    /\ mret' = ReturnValue(glob_parts, value_parts,
                           glob_part_index, value_part_index)
    /\ mexit' = "break"
    /\ mpc' = "done"
    /\ UNCHANGED <<glob_parts, value_parts, glob_part_index, value_part_index,
                   varsNotGlob>>

MatchLoopEnd ==
    /\ mpc = "loop"
    /\ ~WhileCond(glob_parts, value_parts, glob_part_index, value_part_index)
    /\ mret' = ReturnValue(glob_parts, value_parts,
                           glob_part_index, value_part_index)
    /\ mexit' = "end"
    /\ mpc' = "done"
    /\ UNCHANGED <<glob_parts, value_parts, glob_part_index, value_part_index,
                   varsNotGlob>>

NextGlob ==
    \/ MatchSkipOne
    \/ MatchStarLast
    \/ MatchStarSkip
    \/ MatchLiteral
    \/ MatchLiteralBreak
    \/ MatchLoopEnd

SpecGlob == InitGlob /\ [][NextGlob]_vars

\* The machine and the function are the same program.
GlobMachineIsImpl ==
    mpc = "done" => mret = ItemMatcher(glob_parts, value_parts)

\* ------------------------------------------------------------ source filter
FilterGlobs == {<<"a", "*">>, <<"a", "b", "*">>, <<"*", "c">>}
GlobLists == {<<>>} \cup SeqsUpTo(FilterGlobs, MaxFilterGlobs)
OptGlobLists == {NoList} \cup {SomeList(l) : l \in GlobLists}
ContentFilters == [includes : OptGlobLists, excludes : OptGlobLists]
FilterValues == SeqsUpTo(LiteralSegs, MaxFilterValueParts)

\* "x or []"
OrEmpty(x) == IF x.some THEN x.v ELSE <<>>

\* any(func(value) for func in funcs)
AnyMatches(globs, value) ==
    \E i \in 1..Len(globs) : ItemMatcher(globs[i], value)

\* mutation of SourceMatcher: the include test comes first and an include
\* match accepts at once
SourceMatcherIncludeFirst(filter, value) ==
    LET include_funcs == OrEmpty(filter.includes)
        exclude_funcs == OrEmpty(filter.excludes)
    IN  IF include_funcs # <<>> /\ AnyMatches(include_funcs, value)
        THEN TRUE
        ELSE IF exclude_funcs # <<>> /\ AnyMatches(exclude_funcs, value)
        THEN FALSE
        ELSE include_funcs = <<>>

\* CreateSourceMatcher(filter)(value)
SourceMatcher(filter, value) ==
    LET include_funcs == OrEmpty(filter.includes)
        exclude_funcs == OrEmpty(filter.excludes)
    IN  IF exclude_funcs # <<>> /\ AnyMatches(exclude_funcs, value)
        THEN FALSE
        ELSE IF include_funcs # <<>> /\ ~AnyMatches(include_funcs, value)
        THEN FALSE
        ELSE TRUE

InitFilter ==
    /\ IdleGlob
    /\ IdleAgg
    /\ IdleLife
    /\ f_filter \in ContentFilters
    /\ f_value \in FilterValues
    /\ f_ret = FALSE
    /\ f_pc = "call"

FilterApply ==
    /\ f_pc = "call"
    /\ f_ret' = SourceMatcher(f_filter, f_value)
    /\ f_pc' = "done"
    /\ UNCHANGED <<f_filter, f_value, varsNotFilter>>

NextFilter == FilterApply

SpecFilter == InitFilter /\ [][NextFilter]_vars

\* ---- properties of the source filter
GlobSet(list) == {OrEmpty(list)[i] : i \in 1..Len(OrEmpty(list))}
SomeGlobMatches(globs, value) == \E g \in globs : ItemMatcher(g, value)

\* C3: an identifier is rejected if any exclude glob matches it, also when an
\* include glob matches it too; otherwise it is accepted if the include set
\* is empty or absent or some include glob matches it; otherwise it is
\* rejected.  includes = [a::*], excludes = [a::b::*] accepts a::c::b and
\* rejects a::b::c.
C3_FilterPolicy ==
    f_pc = "done" =>
        /\ SomeGlobMatches(GlobSet(f_filter.excludes), f_value)
              => f_ret = FALSE
        /\ (/\ ~SomeGlobMatches(GlobSet(f_filter.excludes), f_value)
            /\ \/ GlobSet(f_filter.includes) = {}
               \/ SomeGlobMatches(GlobSet(f_filter.includes), f_value))
              => f_ret = TRUE
        /\ (/\ ~SomeGlobMatches(GlobSet(f_filter.excludes), f_value)
            /\ GlobSet(f_filter.includes) # {}
            /\ ~SomeGlobMatches(GlobSet(f_filter.includes), f_value))
              => f_ret = FALSE
        /\ (/\ f_filter.includes = SomeList(<< <<"a", "*">> >>)
            /\ f_filter.excludes = SomeList(<< <<"a", "b", "*">> >>))
              => /\ f_value = <<"a", "c", "b">> => f_ret = TRUE
                 /\ f_value = <<"a", "b", "c">> => f_ret = FALSE

C3_Witness ==
    /\ f_pc = "done"
    /\ f_filter = [includes |-> SomeList(<< <<"a", "*">> >>),
                   excludes |-> SomeList(<< <<"a", "b", "*">> >>)]
    /\ f_value = <<"a", "b", "c">>
    /\ f_ret = FALSE

\* ---- properties of the glob matcher
IsLiteral(seg) == seg \notin {"*", "*{1}"}
AllLiteral(s) == \A i \in 1..Len(s) : IsLiteral(s[i])
BeginsWith(v, p) == Len(p) <= Len(v) /\ \A i \in 1..Len(p) : v[i] = p[i]
LiteralsThenStar(g) ==
    /\ g[Len(g)] = "*"
    /\ AllLiteral(SubSeq(g, 1, Len(g) - 1))

\* C5 as stated: a pattern of literal segments followed by a last "*" matches
\* every value that begins with those literal segments, whatever follows them,
\* zero further segments included.
C5_TrailingStarAnySuffix ==
    (/\ mpc = "done"
     /\ LiteralsThenStar(glob_parts)
     /\ BeginsWith(value_parts, SubSeq(glob_parts, 1, Len(glob_parts) - 1)))
    => mret = TRUE

\* C5 amended: a pattern of literal segments followed by a last "*" matches
\* every value that begins with those literal segments and has at least one
\* further segment after them.
C5_TrailingStarNonEmptySuffix ==
    (/\ mpc = "done"
     /\ LiteralsThenStar(glob_parts)
     /\ BeginsWith(value_parts, SubSeq(glob_parts, 1, Len(glob_parts) - 1))
     /\ Len(value_parts) >= Len(glob_parts))
    => mret = TRUE

C5_Witness ==
    /\ mpc = "done"
    /\ glob_parts = <<"a", "*">>
    /\ value_parts = <<"a", "b", "c">>
    /\ mexit = "return"
    /\ mret = TRUE

\* C9: for literal segments l1 and l2 the pattern l1::*{1}::l2 matches
\* l1::X::l2 for every single segment X (X = l2 included), and matches no
\* value that begins with l1, ends with l2 and has zero or at least two
\* segments between them.
C9_SkipExactlyOne ==
    (/\ mpc = "done"
     /\ Len(glob_parts) = 3
     /\ IsLiteral(glob_parts[1])
     /\ glob_parts[2] = "*{1}"
     /\ IsLiteral(glob_parts[3]))
    => /\ (/\ Len(value_parts) = 3
           /\ value_parts[1] = glob_parts[1]
           /\ value_parts[3] = glob_parts[3]) => mret = TRUE
       /\ (/\ Len(value_parts) \in {2} \cup (4..Len(value_parts))
           /\ value_parts[1] = glob_parts[1]
           /\ value_parts[Len(value_parts)] = glob_parts[3]) => mret = FALSE

C9_Witness ==
    /\ mpc = "done"
    /\ glob_parts = <<"a", "*{1}", "c">>
    /\ value_parts = <<"a", "c", "c">>
    /\ mret = TRUE

\* C10: a pattern of literal segments only matches exactly the value with
\* the same sequence of segments; and whenever the literal branch finds the
\* pattern segment unequal to the value segment, the matcher returns false.
C10_LiteralExact ==
    /\ (mpc = "done" /\ AllLiteral(glob_parts))
          => (mret = TRUE <=> value_parts = glob_parts)
    /\ (mpc = "done" /\ mexit = "break") => mret = FALSE

C10_Witness ==
    /\ mpc = "done"
    /\ glob_parts = <<"a", "b", "c">>
    /\ value_parts = <<"a", "c", "c">>
    /\ glob_part_index = 1
    /\ mexit = "break"
    /\ mret = FALSE

\* the first index at or after vi (0-based) of a segment of v equal to seg,
\* Len(v) when there is none
FirstAtOrAfter(v, vi, seg) ==
    IF \E i \in vi..(Len(v) - 1) : v[i + 1] = seg
    THEN CHOOSE i \in vi..(Len(v) - 1) :
             /\ v[i + 1] = seg
             /\ \A j \in vi..(i - 1) : v[j + 1] # seg
    ELSE Len(v)

\* C13: at a "*" that is not the last pattern segment the value cursor moves
\* to the first value segment, at or after its position, equal to the next
\* pattern segment (zero or more segments skipped) and matching resumes
\* there, with no backtracking to a later occurrence.  So for literals l1 and
\* l2 the pattern l1::*::l2 matches exactly the values that begin with l1
\* and in which the first segment after it equal to l2 is the last segment:
\* a::*::c matches a::c, a::b::c and a::b::b::c, and neither a::c::c nor a
\* value with no c after a.
C13_SkipUntilFirst ==
    [][/\ (/\ InLoop
           /\ glob_parts[glob_part_index + 1] = "*"
           /\ glob_part_index + 1 < Len(glob_parts))
          => /\ value_part_index' =
                    FirstAtOrAfter(value_parts, value_part_index,
                                   glob_parts[glob_part_index + 2])
             /\ glob_part_index' = glob_part_index + 1
             /\ mpc' = "loop"
       /\ (/\ mpc' = "done"
           /\ Len(glob_parts) = 3
           /\ IsLiteral(glob_parts[1])
           /\ glob_parts[2] = "*"
           /\ IsLiteral(glob_parts[3]))
          => (mret' = TRUE <=>
                 /\ Len(value_parts) >= 2
                 /\ value_parts[1] = glob_parts[1]
                 /\ FirstAtOrAfter(value_parts, 1, glob_parts[3])
                        = Len(value_parts) - 1)]_vars

C13_Witness ==
    /\ mpc = "done"
    /\ glob_parts = <<"a", "*", "c">>
    /\ value_parts = <<"a", "b", "b", "c">>
    /\ mret = TRUE

\* ------------------------------------------------------ coverage aggregator
\* dict.get(key, None) of an absent key: a name that is no string, a count
\* that is no count
NoName == <<>>
NoInt == -1
\* Optional[CoverageResult] / Optional[Tuple[int, int]]: None
NoResult == <<>>

FileNames == {"f1", "f2"}
FileGlobs == {"*", "f1"}
MethodNames == {<<"a", "c">>, <<"a", "b", "c">>}

\* Path(filename).match(glob) for a one-component relative glob: "*" matches
\* every name, a glob without wildcard matches the equal name
PathMatch(filename, glob) == glob = "*" \/ glob = filename

\* the filters a source glob may be configured with
FilterAll == [includes |-> SomeList(<< <<"*">> >>), excludes |-> NoList]
FilterAllEmptyExcludes ==
    [includes |-> SomeList(<< <<"*">> >>), excludes |-> SomeList(<<>>)]
FilterInclude == [includes |-> SomeList(<< <<"a", "*">> >>),
                  excludes |-> SomeList(<< <<"a", "b", "*">> >>)]
FilterExclude == [includes |-> NoList,
                  excludes |-> SomeList(<< <<"a", "c">> >>)]
FilterPool == {FilterAll, FilterAllEmptyExcludes, FilterInclude, FilterExclude}
SourceFilterDicts == UNION {[D -> FilterPool] : D \in SUBSET FileGlobs}

\* one line of the report, json.loads(line): data.get("file", {}) and
\* data.get("method", None) with the keys each may lack
FileObjects ==
    {[name |-> None, total_covered |-> NoInt, total_uncovered |-> NoInt],
     [name |-> None, total_covered |-> 3, total_uncovered |-> 1]}
    \cup [name : FileNames,
          total_covered : {NoInt, 3, 4}, total_uncovered : {1}]
    \cup [name : FileNames,
          total_covered : {NoInt, 3}, total_uncovered : {NoInt}]
NoMethod == [present |-> FALSE, name |-> NoName,
             total_covered |-> NoInt, total_uncovered |-> NoInt]
MethodObjects ==
    {NoMethod,
     [present |-> TRUE, name |-> NoName,
      total_covered |-> NoInt, total_uncovered |-> NoInt],
     [present |-> TRUE, name |-> NoName,
      total_covered |-> 1, total_uncovered |-> 1]}
    \cup {[present |-> TRUE, name |-> n,
           total_covered |-> t[1], total_uncovered |-> t[2]] :
            n \in MethodNames,
            t \in {<<1, 1>>, <<2, 0>>, <<NoInt, 1>>, <<1, NoInt>>}}
Records == [file : FileObjects, method : MethodObjects]
EmptyRecord ==
    [file |-> [name |-> None, total_covered |-> NoInt,
               total_uncovered |-> NoInt],
     method |-> NoMethod]

\* mutation of IsMatchAll: an empty excludes list counts as no excludes
IsMatchAllEmptyExcludes(v) ==
    /\ Len(OrEmpty(v.includes)) = 1
    /\ v.includes.v[1] = <<"*">>
    /\ OrEmpty(v.excludes) = <<>>

\* the fast path test of the set-up loop
IsMatchAll(v) ==
    /\ Len(OrEmpty(v.includes)) = 1
    /\ v.includes.v[1] = <<"*">>
    /\ ~v.excludes.some

ShouldMatchAllFileGlobs(sf) == {k \in DOMAIN sf : IsMatchAll(sf[k])}
SourceMatchers(sf) == {k \in DOMAIN sf : ~IsMatchAll(sf[k])}

\* mutation of IsFileLevel: one of the two keys is enough
IsFileLevelEither(file_data) ==
    file_data.total_covered # NoInt \/ file_data.total_uncovered # NoInt

\* if "total_covered" in file_data and "total_uncovered" in file_data
IsFileLevel(file_data) ==
    file_data.total_covered # NoInt /\ file_data.total_uncovered # NoInt

\* mutation of CaptureFileResult: the last matching record wins
CaptureFileResultLastWins(sf, fr, file_data) ==
    IF \E g \in ShouldMatchAllFileGlobs(sf) : PathMatch(file_data.name, g)
    THEN <<file_data.total_covered, file_data.total_uncovered>>
    ELSE fr

\* the file-level branch: file_result after the record
CaptureFileResult(sf, fr, file_data) ==
    IF /\ fr = NoResult
       /\ \E g \in ShouldMatchAllFileGlobs(sf) : PathMatch(file_data.name, g)
    THEN <<file_data.total_covered, file_data.total_uncovered>>
    ELSE fr

\* match_funcs: the matchers of the source globs the filename matches
MatchFuncs(sf, filename) ==
    {k \in SourceMatchers(sf) : PathMatch(filename, k)}

\* assert method_data: an absent or empty method object is falsy
MethodTruthy(m) ==
    /\ m.present
    /\ ~(m.name = NoName /\ m.total_covered = NoInt
         /\ m.total_uncovered = NoInt)

\* mutation of ShouldAdd: any() in place of all()
ShouldAddAny(sf, rec) ==
    \E k \in MatchFuncs(sf, rec.file.name) :
        SourceMatcher(sf[k], rec.method.name)

\* if match_funcs and all(match_func(method_name) for match_func in match_funcs)
ShouldAdd(sf, rec) ==
    /\ MatchFuncs(sf, rec.file.name) # {}
    /\ \A k \in MatchFuncs(sf, rec.file.name) :
           SourceMatcher(sf[k], rec.method.name)

\* mutation of TotalsPresent: only total_covered is asserted
TotalsPresentOnlyCovered(m) == m.total_covered # NoInt

\* assert total_covered is not None; assert total_uncovered is not None
TotalsPresent(m) == m.total_covered # NoInt /\ m.total_uncovered # NoInt

\* result after adding a method record
AddTo(r, m) ==
    LET r0 == IF r = NoResult THEN <<0, 0>> ELSE r
    IN  <<r0[1] + m.total_covered, r0[2] + m.total_uncovered>>

\* mutation of SelectResult: the file-level fallback is preferred
SelectResultFileFirst(r, fr) ==
    IF fr # NoResult THEN fr
    ELSE IF r # NoResult THEN r
    ELSE NoResult

\* the end of ApplyFunc
SelectResult(r, fr) ==
    IF r # NoResult THEN r
    ELSE IF fr # NoResult THEN fr
    ELSE NoResult

\* ApplyFilters(binary_filename, source_filenames, ApplyFunc): what ApplyFunc
\* returns for the filters that apply
ApplyFilters(r) == r

\* mutation of ExtractResult: the pair comes back in the wrong order
ExtractResultSwapped(r) ==
    IF r = NoResult THEN <<0, 0>> ELSE <<r[2], r[1]>>

\* the end of ExtractCoverageInfo
ExtractResult(r) ==
    IF r = NoResult THEN <<0, 0>> ELSE <<r[1], r[2]>>

InitAgg ==
    /\ IdleGlob
    /\ IdleFilter
    /\ IdleLife
    /\ source_filters \in SourceFilterDicts
    /\ data = EmptyRecord
    /\ file_result = NoResult
    /\ result = NoResult
    /\ accumulated = <<>>
    /\ nlines = 0
    /\ apc = "reading"
    /\ apply_ret = NoResult
    /\ extract_ret = NoResult

\* for line in f.readlines(): data = json.loads(line)
AggReadLine ==
    /\ apc = "reading"
    /\ nlines < MaxRecords
    /\ \E rec \in Records : data' = rec
    /\ nlines' = nlines + 1
    /\ apc' = "parsed"
    /\ UNCHANGED <<source_filters, file_result, result, accumulated,
                   apply_ret, extract_ret, varsNotAgg>>

\* assert filename is not None
AggAssertFilename ==
    /\ apc = "parsed"
    /\ data.file.name = None
    /\ apc' = "failed"
    /\ UNCHANGED <<source_filters, data, file_result, result, accumulated,
                   nlines, apply_ret, extract_ret, varsNotAgg>>

\* the file-level branch, ending in continue
AggFileRecord ==
    /\ apc = "parsed"
    /\ data.file.name # None
    /\ IsFileLevel(data.file)
    /\ file_result' = CaptureFileResult(source_filters, file_result, data.file)
    /\ apc' = "processed"
    /\ UNCHANGED <<source_filters, data, result, accumulated, nlines,
                   apply_ret, extract_ret, varsNotAgg>>

\* assert method_data; assert method_name is not None
AggAssertMethod ==
    /\ apc = "parsed"
    /\ data.file.name # None
    /\ ~IsFileLevel(data.file)
    /\ ~MethodTruthy(data.method) \/ data.method.name = NoName
    /\ apc' = "failed"
    /\ UNCHANGED <<source_filters, data, file_result, result, accumulated,
                   nlines, apply_ret, extract_ret, varsNotAgg>>

\* a method record the filters do not let through
AggMethodSkipped ==
    /\ apc = "parsed"
    /\ data.file.name # None
    /\ ~IsFileLevel(data.file)
    /\ MethodTruthy(data.method)
    /\ data.method.name # NoName
    /\ ~ShouldAdd(source_filters, data)
    /\ apc' = "processed"
    /\ UNCHANGED <<source_filters, data, file_result, result, accumulated,
                   nlines, apply_ret, extract_ret, varsNotAgg>>

\* assert total_covered is not None / assert total_uncovered is not None
AggAssertTotals ==
    /\ apc = "parsed"
    /\ data.file.name # None
    /\ ~IsFileLevel(data.file)
    /\ MethodTruthy(data.method)
    /\ data.method.name # NoName
    /\ ShouldAdd(source_filters, data)
    /\ ~TotalsPresent(data.method)
    /\ apc' = "failed"
    /\ UNCHANGED <<source_filters, data, file_result, result, accumulated,
                   nlines, apply_ret, extract_ret, varsNotAgg>>

\* result = (result[0] + total_covered, result[1] + total_uncovered)
AggMethodAdded ==
    /\ apc = "parsed"
    /\ data.file.name # None
    /\ ~IsFileLevel(data.file)
    /\ MethodTruthy(data.method)
    /\ data.method.name # NoName
    /\ ShouldAdd(source_filters, data)
    /\ TotalsPresent(data.method)
    /\ result' = AddTo(result, data.method)
    /\ accumulated' = Append(accumulated, <<data.method.total_covered,
                                            data.method.total_uncovered>>)
    /\ apc' = "processed"
    /\ UNCHANGED <<source_filters, data, file_result, nlines,
                   apply_ret, extract_ret, varsNotAgg>>

\* the loop goes on to the next line; the parsed line is dropped
AggNextLine ==
    /\ apc = "processed"
    /\ data' = EmptyRecord
    /\ apc' = "reading"
    /\ UNCHANGED <<source_filters, file_result, result, accumulated, nlines,
                   apply_ret, extract_ret, varsNotAgg>>

\* the lines are exhausted: ApplyFunc returns
AggReturn ==
    /\ apc = "reading"
    /\ apply_ret' = SelectResult(result, file_result)
    /\ apc' = "returned"
    /\ UNCHANGED <<source_filters, data, file_result, result, accumulated,
                   nlines, extract_ret, varsNotAgg>>

\* result = ApplyFilters(...); if result is None: return 0, 0; return ...
ExtractReturn ==
    /\ apc = "returned"
    /\ extract_ret' = ExtractResult(ApplyFilters(apply_ret))
    /\ apc' = "extracted"
    /\ UNCHANGED <<source_filters, data, file_result, result, accumulated,
                   nlines, apply_ret, varsNotAgg>>

NextAgg ==
    \/ AggReadLine
    \/ AggAssertFilename
    \/ AggFileRecord
    \/ AggAssertMethod
    \/ AggMethodSkipped
    \/ AggAssertTotals
    \/ AggMethodAdded
    \/ AggNextLine
    \/ AggReturn
    \/ ExtractReturn

SpecAgg == InitAgg /\ [][NextAgg]_vars

\* ---- properties of the aggregator
RECURSIVE SumOf(_, _)
SumOf(pairs, i) ==
    IF pairs = <<>> THEN 0 ELSE pairs[1][i] + SumOf(Tail(pairs), i)

\* a method-level record: it has a file name, is not taken for a file-level
\* record and carries a method object with its name and both counts
IsMethodRecord(rec) ==
    /\ rec.file.name # None
    /\ ~(rec.file.total_covered # NoInt /\ rec.file.total_uncovered # NoInt)
    /\ rec.method.present
    /\ rec.method.name # NoName
    /\ rec.method.total_covered # NoInt
    /\ rec.method.total_uncovered # NoInt

\* M: the configured filters that are not fast-pathed as match-every-file
\* and whose file glob matches the record's filename
FiltersOfFile(rec) ==
    {k \in DOMAIN source_filters :
        /\ ~(/\ source_filters[k].includes = SomeList(<< <<"*">> >>)
             /\ source_filters[k].excludes = NoList)
        /\ PathMatch(rec.file.name, k)}

Accepts(k, rec) == SourceMatcher(source_filters[k], rec.method.name)

Added(rec) ==
    result' = <<(IF result = NoResult THEN 0 ELSE result[1])
                    + rec.method.total_covered,
                (IF result = NoResult THEN 0 ELSE result[2])
                    + rec.method.total_uncovered>>

\* C1 as stated: when a method-level record is processed, its counts are
\* added to the running total if at least one filter in M accepts its method
\* name, also when another filter in M rejects it; if M is empty or no filter
\* in M accepts, nothing is added.
C1_AddedIfSomeFilterAccepts ==
    [][(apc = "parsed" /\ IsMethodRecord(data)) =>
         IF \E k \in FiltersOfFile(data) : Accepts(k, data)
         THEN Added(data)
         ELSE result' = result]_vars

\* C1 amended: when a method-level record is processed, its counts are added
\* to the running total if M is not empty and every filter in M accepts its
\* method name; if M is empty or some filter in M rejects it, nothing is
\* added.
C1_AddedIfAllFiltersAccept ==
    [][(apc = "parsed" /\ IsMethodRecord(data)) =>
         IF /\ FiltersOfFile(data) # {}
            /\ \A k \in FiltersOfFile(data) : Accepts(k, data)
         THEN Added(data)
         ELSE result' = result]_vars

C1_Witness ==
    /\ apc = "processed"
    /\ IsMethodRecord(data)
    /\ Cardinality(FiltersOfFile(data)) = 2
    /\ \A k \in FiltersOfFile(data) : Accepts(k, data)
    /\ nlines = 2
    /\ Len(accumulated) = 2
    /\ result = <<3, 1>>

\* C2: when ApplyFunc returns, the result is the pair of sums of the counts
\* of the accumulated method records if there is one, file-level totals not
\* being part of it even when a fallback was captured; otherwise the
\* file-level fallback if one was captured; otherwise None.
C2_ResultSelection ==
    apc \in {"returned", "extracted"} =>
        apply_ret =
            IF Len(accumulated) > 0
            THEN <<SumOf(accumulated, 1), SumOf(accumulated, 2)>>
            ELSE IF file_result # NoResult THEN file_result
            ELSE NoResult

C2_Witness ==
    /\ apc = "returned"
    /\ file_result = <<4, 1>>
    /\ accumulated = << <<1, 1>>, <<2, 0>> >>
    /\ apply_ret = <<3, 1>>

\* a required field is missing: the file name, or, in a record not taken for
\* a file-level record, the method object, its name or one of its counts
MissingRequired(rec) ==
    \/ rec.file.name = None
    \/ /\ ~IsFileLevel(rec.file)
       /\ \/ ~rec.method.present
          \/ rec.method.name = NoName
          \/ rec.method.total_covered = NoInt
          \/ rec.method.total_uncovered = NoInt

NoCoverageResult ==
    /\ apc = "failed"
    /\ apply_ret = NoResult
    /\ extract_ret = NoResult

\* C4 as stated: a record with a missing required field ends the extraction
\* in an error with no CoverageResult, whether or not its filename and method
\* name pass the configured filters.
C4_MissingFieldFatal ==
    (apc \in {"processed", "failed"} /\ MissingRequired(data))
        => NoCoverageResult

\* C4 amended: a record without a file name, or a record not taken for a
\* file-level record that lacks the method object or the method name, ends
\* the extraction in an error with no CoverageResult whatever the filters; a
\* record that lacks only method total_covered or total_uncovered does so
\* when its filename matches some non-fast-pathed filter and every such
\* filter accepts its method name.
C4_MissingFieldFatalWhenRead ==
    (/\ apc \in {"processed", "failed"}
     /\ \/ data.file.name = None
        \/ /\ ~IsFileLevel(data.file)
           /\ \/ ~data.method.present
              \/ data.method.name = NoName
              \/ /\ \/ data.method.total_covered = NoInt
                    \/ data.method.total_uncovered = NoInt
                 /\ FiltersOfFile(data) # {}
                 /\ \A k \in FiltersOfFile(data) : Accepts(k, data))
        => NoCoverageResult

C4_Witness ==
    /\ apc = "failed"
    /\ nlines = 2
    /\ result = <<2, 0>>
    /\ data.file.name = "f1"
    /\ data.method.name = <<"a", "c">>
    /\ data.method.total_covered = 1
    /\ data.method.total_uncovered = NoInt
    /\ apply_ret = NoResult

\* C6: ExtractCoverageInfo returns (0, 0) when the aggregator yields no
\* result (nothing accumulated and no fallback captured), and otherwise the
\* (covered, uncovered) pair of the aggregator's result, unchanged.
C6_AbsenceToZero ==
    apc = "extracted" =>
        /\ (Len(accumulated) = 0 /\ file_result = NoResult)
              => (apply_ret = NoResult /\ extract_ret = <<0, 0>>)
        /\ ~(Len(accumulated) = 0 /\ file_result = NoResult)
              => (apply_ret # NoResult /\ extract_ret = apply_ret)

C6_Witness ==
    /\ apc = "extracted"
    /\ nlines = 2
    /\ DOMAIN source_filters = {"f1"}
    /\ apply_ret = NoResult
    /\ extract_ret = <<0, 0>>

\* both counts lie directly under the record's file object
HasFileTotals(rec) ==
    rec.file.total_covered # NoInt /\ rec.file.total_uncovered # NoInt

\* the record carries a method object with its name and both counts
HasFullMethod(rec) ==
    /\ rec.method.present
    /\ rec.method.name # NoName
    /\ rec.method.total_covered # NoInt
    /\ rec.method.total_uncovered # NoInt

AllFiltersAccept(rec) ==
    /\ FiltersOfFile(rec) # {}
    /\ \A k \in FiltersOfFile(rec) : Accepts(k, rec)

\* C11 as stated: a record is handled as file-level (it may set the
\* fallback) only when its file object carries both counts and it has no
\* method key; every record with a method object is processed as a
\* method-level record and, if the filters accept it, added to the running
\* total, also when its file object carries both counts.
C11_MethodKeyMakesMethodLevel ==
    [][(apc = "parsed" /\ data.file.name # None) =>
         /\ file_result' # file_result
               => (HasFileTotals(data) /\ ~data.method.present)
         /\ (HasFullMethod(data) /\ AllFiltersAccept(data))
               => Added(data)]_vars

\* C11 amended: a record is handled as file-level whenever its file object
\* carries both total_covered and total_uncovered, with or without a method
\* key: it may set the fallback and never changes the running total or
\* fails; every other record is processed as a method-level record: it never
\* sets the fallback and, if it carries a full method object the filters
\* accept, it is added to the running total.
C11_FileTotalsMakeFileLevel ==
    [][(apc = "parsed" /\ data.file.name # None) =>
         IF HasFileTotals(data)
         THEN /\ apc' = "processed"
              /\ result' = result
              /\ file_result' \in {file_result, <<data.file.total_covered,
                                                 data.file.total_uncovered>>}
         ELSE /\ file_result' = file_result
              /\ (HasFullMethod(data) /\ AllFiltersAccept(data))
                    => Added(data)]_vars

C11_Witness ==
    /\ apc = "processed"
    /\ nlines = 1
    /\ HasFileTotals(data)
    /\ HasFullMethod(data)
    /\ AllFiltersAccept(data)
    /\ result = NoResult
    /\ file_result = <<data.file.total_covered, data.file.total_uncovered>>

\* a filter with includes exactly ["*"] and excludes absent or empty
NoExcludesAtAll(v) ==
    v.includes = SomeList(<< <<"*">> >>) /\ OrEmpty(v.excludes) = <<>>

\* a filter with includes exactly ["*"] and excludes absent (None)
ExcludesAbsent(v) ==
    v.includes = SomeList(<< <<"*">> >>) /\ v.excludes = NoList

\* the configured globs that match the record's filename
GlobsOfFile(rec) == {k \in DOMAIN source_filters : PathMatch(rec.file.name, k)}

\* C12 as stated: a filter with includes exactly ["*"] and excludes absent
\* or empty is match-every-file: its glob only selects file-level records
\* for the fallback and is never used for method-level matching, so a
\* record of a file matched only by such globs never adds to the running
\* total; every other filter is used for method-level matching only and
\* never captures a fallback.
C12_FastPathNoExcludesAtAll ==
    [][(apc = "parsed" /\ data.file.name # None) =>
         /\ (\A k \in GlobsOfFile(data) : NoExcludesAtAll(source_filters[k]))
               => result' = result
         /\ file_result' # file_result
               => \E k \in GlobsOfFile(data) :
                      NoExcludesAtAll(source_filters[k])
         /\ (~HasFileTotals(data) /\ HasFullMethod(data)) =>
               IF /\ \E k \in GlobsOfFile(data) :
                         ~NoExcludesAtAll(source_filters[k])
                  /\ \A k \in GlobsOfFile(data) :
                         NoExcludesAtAll(source_filters[k]) \/ Accepts(k, data)
               THEN Added(data)
               ELSE result' = result]_vars

\* C12 amended: the same with match-every-file meaning includes exactly
\* ["*"] and excludes absent (None); a filter with includes ["*"] and an
\* empty excludes list is an ordinary filter, used for method-level matching
\* and never capturing a fallback.
C12_FastPathExcludesAbsent ==
    [][(apc = "parsed" /\ data.file.name # None) =>
         /\ (\A k \in GlobsOfFile(data) : ExcludesAbsent(source_filters[k]))
               => result' = result
         /\ file_result' # file_result
               => \E k \in GlobsOfFile(data) :
                      ExcludesAbsent(source_filters[k])
         /\ (~HasFileTotals(data) /\ HasFullMethod(data)) =>
               IF /\ \E k \in GlobsOfFile(data) :
                         ~ExcludesAbsent(source_filters[k])
                  /\ \A k \in GlobsOfFile(data) :
                         ExcludesAbsent(source_filters[k]) \/ Accepts(k, data)
               THEN Added(data)
               ELSE result' = result]_vars

C12_Witness ==
    /\ apc = "processed"
    /\ nlines = 1
    /\ DOMAIN source_filters = {"*", "f1"}
    /\ source_filters["*"] = FilterAll
    /\ source_filters["f1"] = FilterAllEmptyExcludes
    /\ data.file.name = "f2"
    /\ ~HasFileTotals(data)
    /\ HasFullMethod(data)
    /\ result = NoResult

\* C14: the fallback is set by the first record that is file-level and
\* whose filename matches a match-every-file glob, to that record's
\* (total_covered, total_uncovered); once set, no later record, file-level
\* or method-level, changes it.
C14_FirstWinsFallback ==
    [][/\ file_result # NoResult => file_result' = file_result
       /\ (file_result = NoResult /\ apc = "parsed") =>
             IF /\ data.file.name # None
                /\ HasFileTotals(data)
                /\ \E k \in GlobsOfFile(data) :
                       ExcludesAbsent(source_filters[k])
             THEN file_result' = <<data.file.total_covered,
                                   data.file.total_uncovered>>
             ELSE file_result' = NoResult]_vars

C14_Witness ==
    /\ apc = "processed"
    /\ nlines = 3
    /\ file_result = <<3, 1>>
    /\ data.file.name = "f1"
    /\ data.file.total_covered = 4
    /\ data.file.total_uncovered = 1
    /\ \E k \in GlobsOfFile(data) : ExcludesAbsent(source_filters[k])
    /\ result # NoResult

\* ---------------------------------------------------------------- lifecycle
\* The tree under coverage_filename.parent: directory 0 is the parent itself,
\* directory d > 0 lies in directory (d - 1) \div 2.  A file is <<dir, name>>.
Dirs == 0..MaxSubDirs
ParentDir == 0
ArtifactFile == <<ParentDir, "coverage.ade">>
FsFiles == (Dirs \X {"a.gcda", "n.txt"})
              \cup {<<ParentDir, "b.gcda">>, <<ParentDir, ".gcda">>}

\* os.path.splitext(filename)[1]: a leading dot starts no extension
SplitExt(filename) ==
    CASE filename = "a.gcda" -> ".gcda"
      [] filename = "b.gcda" -> ".gcda"
      [] filename = "n.txt" -> ".txt"
      [] filename = ".gcda" -> ""
      [] filename = "coverage.ade" -> ".ade"

\* if os.path.splitext(filename)[1] == ".gcda"
IsGcda(filename) == SplitExt(filename) = ".gcda"

\* mutation of EnumSource: only the top directory is listed
EnumSourceTopOnly(is_dir) == IF is_dir THEN {ParentDir} ELSE {}

\* the roots EnumSource(coverage_filename.parent) yields: every directory of
\* the tree, none when there is no such directory
EnumSource(is_dir) == IF is_dir THEN Dirs ELSE {}

\* the .gcda files the scan of StartCoverage comes across
ScannedGcda(is_dir, fs) ==
    {f \in fs : f[1] \in EnumSource(is_dir) /\ IsGcda(f[2])}

\* mutation of GcdaDirs: the set is not seeded with the parent
GcdaDirsNoSeed(is_dir, fs) ==
    {d \in EnumSource(is_dir) : \E f \in fs : f[1] = d /\ IsGcda(f[2])}

\* gcda_dirs after the "Detecting .gcda dirs..." loop of StopCoverage
GcdaDirs(is_dir, fs) ==
    {ParentDir}
        \cup {d \in EnumSource(is_dir) : \E f \in fs : f[1] = d /\ IsGcda(f[2])}

\* " ".join('"{}"'.format(gcda_dir) for gcda_dir in gcda_dirs): the set in
\* some order
CommandLineDirs(S) ==
    {q \in [1..Cardinality(S) -> S] :
        \A i, j \in 1..Cardinality(S) : i # j => q[i] # q[j]}

InitLife ==
    /\ IdleGlob
    /\ IdleFilter
    /\ IdleAgg
    /\ parent_is_dir \in BOOLEAN
    /\ files \in (IF parent_is_dir THEN SUBSET FsFiles ELSE {{}})
    /\ artifact \in (IF parent_is_dir THEN BOOLEAN ELSE {FALSE})
    /\ found = 0
    /\ start_files = [files |-> {}, artifact |-> FALSE]
    /\ gcda_dirs = {}
    /\ merge_runs = <<>>
    /\ lpc = "idle"
    /\ fresh = {}
    /\ life_hist = [completed |-> FALSE, interrupted |-> FALSE]

\* mutation of LifeStartBegin: the previous coverage file is left in place
LifeStartBeginKeepsArtifact ==
    /\ lpc \in {"idle", "stopped"}
    /\ found' = 0
    /\ start_files' = [files |-> files, artifact |-> artifact]
    /\ lpc' = "scanning"
    /\ UNCHANGED <<parent_is_dir, files, artifact, gcda_dirs, merge_runs,
                   fresh, life_hist, varsNotLife>>

\* StartCoverage: found = 0; unlink the previous coverage file if it exists
LifeStartBegin ==
    /\ lpc \in {"idle", "stopped"}
    /\ found' = 0
    /\ artifact' = FALSE
    /\ start_files' = [files |-> files, artifact |-> artifact]
    /\ lpc' = "scanning"
    /\ fresh' = fresh \ {ArtifactFile}
    /\ UNCHANGED <<parent_is_dir, files, gcda_dirs, merge_runs, life_hist,
                   varsNotLife>>

\* StartCoverage: fullpath.unlink(); found += 1
LifeStartUnlink ==
    /\ lpc = "scanning"
    /\ \E f \in ScannedGcda(parent_is_dir, files) :
           /\ files' = files \ {f}
           /\ fresh' = fresh \ {f}
    /\ found' = found + 1
    /\ UNCHANGED <<parent_is_dir, artifact, start_files, gcda_dirs,
                   merge_runs, lpc, life_hist, varsNotLife>>

\* StartCoverage: the scan is over
LifeStartDone ==
    /\ lpc = "scanning"
    /\ ScannedGcda(parent_is_dir, files) = {}
    /\ lpc' = "started"
    /\ fresh' = {}
    /\ life_hist' = [life_hist EXCEPT !.completed = TRUE]
    /\ UNCHANGED <<parent_is_dir, files, artifact, found, start_files,
                   gcda_dirs, merge_runs, varsNotLife>>

\* StartCoverage never returns: an unlink raises or the process dies in the
\* scan; the next run begins with StartCoverage again
LifeStartInterrupted ==
    /\ lpc = "scanning"
    /\ lpc' = "idle"
    /\ life_hist' = [life_hist EXCEPT !.interrupted = TRUE]
    /\ UNCHANGED <<parent_is_dir, files, artifact, found, start_files,
                   gcda_dirs, merge_runs, fresh, varsNotLife>>

\* the instrumented test binary runs and writes .gcda files
LifeTestRun ==
    /\ lpc = "started"
    /\ \E written \in SUBSET {f \in FsFiles : IsGcda(f[2])} :
           /\ files' = IF parent_is_dir THEN files \cup written ELSE files
           /\ fresh' = IF parent_is_dir
                       THEN fresh \cup (written \ files) ELSE fresh
    /\ start_files' = [files |-> {}, artifact |-> FALSE]
    /\ lpc' = "ran"
    /\ UNCHANGED <<parent_is_dir, artifact, found, gcda_dirs, merge_runs,
                   life_hist, varsNotLife>>

\* StopCoverage: "Detecting .gcda dirs..."
LifeStopDetect ==
    /\ lpc = "ran"
    /\ gcda_dirs' = GcdaDirs(parent_is_dir, files)
    /\ merge_runs' = <<>>
    /\ lpc' = "detected"
    /\ UNCHANGED <<parent_is_dir, files, artifact, found, start_files,
                   fresh, life_hist, varsNotLife>>

\* StopCoverage: "Generating coverage information...": grcov runs with its
\* output redirected to the coverage file
LifeStopGenerate ==
    /\ lpc = "detected"
    /\ \E dirs \in CommandLineDirs(gcda_dirs) :
           merge_runs' = Append(merge_runs, dirs)
    /\ artifact' = parent_is_dir
    /\ fresh' = IF parent_is_dir THEN fresh \cup {ArtifactFile} ELSE fresh
    /\ lpc' = "stopped"
    /\ UNCHANGED <<parent_is_dir, files, found, start_files, gcda_dirs,
                   life_hist, varsNotLife>>

NextLife ==
    \/ LifeStartBegin
    \/ LifeStartUnlink
    \/ LifeStartDone
    \/ LifeStartInterrupted
    \/ LifeTestRun
    \/ LifeStopDetect
    \/ LifeStopGenerate

SpecLife == InitLife /\ [][NextLife]_vars

\* ---- properties of the lifecycle
GcdaOf(fs) == {f \in fs : SplitExt(f[2]) = ".gcda"}

\* C7: when Start completes, the output artifact does not exist, no file
\* with extension .gcda exists in the tree under the artifact's parent
\* directory, every other file is as it was, and found is the number of
\* .gcda files the tree held before Start.
C7_StartPostcondition ==
    lpc = "started" =>
        /\ ~artifact
        /\ GcdaOf(files) = {}
        /\ files = start_files.files \ GcdaOf(start_files.files)
        /\ found = Cardinality(GcdaOf(start_files.files))

C7_Witness ==
    /\ lpc = "started"
    /\ start_files.artifact
    /\ Cardinality(GcdaOf(start_files.files)) = 3
    /\ \E f \in GcdaOf(start_files.files) : f[1] # ParentDir
    /\ <<ParentDir, "n.txt">> \in files
    /\ found = 3
    /\ ~artifact

\* C8: a call of StopCoverage runs the merge tool exactly once, and the
\* directories passed to it are the artifact's parent directory, always,
\* and every directory of the tree that holds a .gcda file, each listed
\* once and no other directory.
C8_StopMergeDirs ==
    lpc = "stopped" =>
        /\ Len(merge_runs) = 1
        /\ {merge_runs[1][i] : i \in 1..Len(merge_runs[1])}
              = {ParentDir} \cup {d \in Dirs : \E f \in GcdaOf(files) : f[1] = d}
        /\ \A i, j \in 1..Len(merge_runs[1]) :
               i # j => merge_runs[1][i] # merge_runs[1][j]

C8_Witness ==
    /\ lpc = "stopped"
    /\ Len(merge_runs) = 1
    /\ Len(merge_runs[1]) = 2
    /\ \A f \in GcdaOf(files) : f[1] = 2
    /\ GcdaOf(files) # {}

\* C15: once a Start has run to completion, whatever Starts were interrupted
\* before it, every .gcda file and the output artifact under the artifact's
\* directory were written after the last completed Start; so the directories
\* handed to the merge tool by the next Stop hold only .gcda files written
\* after that Start.
C15_NoStaleAfterCompletedStart ==
    life_hist.completed =>
        /\ GcdaOf(files) \subseteq fresh
        /\ artifact => ArtifactFile \in fresh
        /\ lpc = "stopped" =>
              \A i \in 1..Len(merge_runs[1]) :
                  \A f \in GcdaOf(files) :
                      f[1] = merge_runs[1][i] => f \in fresh

C15_Witness ==
    /\ lpc = "stopped"
    /\ life_hist.interrupted
    /\ life_hist.completed
    /\ found = 2
    /\ Cardinality(GcdaOf(start_files.files)) = 0
    /\ Cardinality(GcdaOf(files)) = 2
    /\ Len(merge_runs[1]) = 3

====
